---- MODULE Spec2Model ----
(***************************************************************************)
(* QBIT-5 snapshot pipeline.                                               *)
(*                                                                         *)
(*   src/src/qbit5_snapshot.py        FETCH -> SELECT_SESSION -> COMPUTE   *)
(*                                    -> PERSIST (table, stats, heartbeat) *)
(*   src/scripts/make_intraday_post.py   on-line intraday chart builder    *)
(*   src/scripts/make_intraday_chart.py  chart builder reading the table   *)
(*   src/scripts/long_charts.py          levels reader with recompute      *)
(*                                                                         *)
(* A DataFrame is the set of its rows (records); a float is an exact       *)
(* fraction <<numerator, denominator>> in lowest terms, denominator > 0.   *)
(***************************************************************************)
EXTENDS Integers, Sequences, FiniteSets, TLC

\* ------------------------------------------------------------------ bounds
MaxMinutes == 7     \* minutes of a session the provider may have delivered
MaxRuns    == 2     \* snapshot runs in one behaviour
MaxClock   == 2     \* wall-clock minutes that may pass
MaxPostMinutes == 3 \* minutes of a session seen by make_intraday_post.py
MaxRows    == 2     \* rows of a stored levels table

\* --------------------------------------------------------------- constants
TICKERS == <<"IONQ", "QBTS", "RGTI", "ARQQ", "QUBT">>
MIN_SAMPLES_TODAY == 30
NaN == -1

TickerSet == {TICKERS[i] : i \in 1..Len(TICKERS)}
TickerIdx(t) == CHOOSE i \in 1..Len(TICKERS) : TICKERS[i] = t

\* -------------------------------------------------------------- arithmetic
RECURSIVE GCD(_, _)
GCD(a, b) == IF b = 0 THEN a ELSE GCD(b, a % b)

Abs(x) == IF x < 0 THEN -x ELSE x

Frac(n, d) == LET g == GCD(Abs(n), d) IN <<n \div g, d \div g>>

FAdd(x, y) == Frac(x[1] * y[2] + y[1] * x[2], x[2] * y[2])

FSub(x, y) == Frac(x[1] * y[2] - y[1] * x[2], x[2] * y[2])

FScale(x, k) == Frac(x[1] * k, x[2])

FDivInt(x, k) == Frac(x[1], x[2] * k)

RECURSIVE FSum(_)
FSum(S) == IF S = {} THEN <<0, 1>>
           ELSE LET e == CHOOSE e \in S : TRUE
                IN FAdd(e[2], FSum(S \ {e}))

\* mean over a set of <<label, fraction>> pairs (labels keep equal values apart)
FMean(S) == FDivInt(FSum(S), Cardinality(S))

\* round(x, 2): the result in hundredths, ties to even
Round2(x) ==
    LET n == x[1] * 100
        d == x[2]
        q == n \div d
        r == n - q * d
    IN IF 2 * r < d THEN q
       ELSE IF 2 * r > d THEN q + 1
       ELSE IF q % 2 = 0 THEN q ELSE q + 1

SetMax(S) == CHOOSE m \in S : \A x \in S : x <= m
SetMin(S) == CHOOSE m \in S : \A x \in S : m <= x

\* ------------------------------------------------------------ price source
\* A timestamp is a count of UTC minutes; the session of day d opens at 14:30 UTC.
Ts(d, k) == 1440 * d + 870 + k

\* df_et.index.tz_convert(ET) ; df_et.index.date   (ET = UTC-5)
DateET(ts) == (ts - 300) \div 1440

\* The price the provider quotes for ticker t at minute k of day d.
Tape(t, d, k) == 8 + ((TickerIdx(t) * (k + 1) + d + 2 * k) % 5)

Patterns == {"full", "none", "late", "early"}

\* whether a ticker following pattern p has a bar at minute k of an n-minute session
Present(p, k, n) ==
    CASE p = "full"  -> k < n
      [] p = "none"  -> FALSE
      [] p = "late"  -> 1 <= k /\ k < n
      [] p = "early" -> k < n - 1

\* what yf.download returns for each ticker: day 1 complete for n1 minutes,
\* day 2 with n2 minutes and one pattern per ticker
Response(n1, n2, pats) ==
    [t \in TickerSet |->
        {[ts |-> Ts(1, k), Close |-> Tape(t, 1, k)] : k \in 0..(n1 - 1)}
        \cup {[ts |-> Ts(2, k), Close |-> Tape(t, 2, k)] :
                 k \in {j \in 0..(n2 - 1) : Present(pats[t], j, n2)}}]

PureResponses ==
    {Response(n1, n2, pats) : n1 \in {0, 1, MaxMinutes}, n2 \in 0..MaxMinutes,
                              pats \in [TickerSet -> Patterns]}

Uniform(p) == [t \in TickerSet |-> p]

SnapshotResponses ==
    {Response(n1, n2, Uniform(p)) : n1 \in {0, MaxMinutes}, n2 \in {0, 1, MaxMinutes},
                                    p \in {"full", "late"}}

\* ------------------------------------------------------ qbit5_snapshot.py
_download_1m_last_days(resp) ==
    UNION {{[ts |-> o.ts, Ticker |-> t, Close |-> o.Close, DateET |-> DateET(o.ts)] :
               o \in resp[t]} : t \in {u \in TickerSet : resp[u] # {}}}

Counts(df_all_) ==
    [d \in {r.DateET : r \in df_all_} |-> Cardinality({r \in df_all_ : r.DateET = d})]

ValidDays(df_all_) ==
    {d \in DOMAIN Counts(df_all_) : Counts(df_all_)[d] >= MIN_SAMPLES_TODAY}

\* valid_days[0] in place of valid_days[-1]
LatestDay_First(days) == SetMin(days)

LatestDay(days) == SetMax(days)

_select_latest_trading_date(df_all_) ==
    IF df_all_ = {} THEN df_all_
    ELSE IF ValidDays(df_all_) = {} THEN {}
    ELSE {r \in df_all_ : r.DateET = LatestDay(ValidDays(df_all_))}

Index(df) == {r.ts : r \in df}
Columns(df) == {r.Ticker : r \in df}

Pivot(df) ==
    [ts \in Index(df) |-> [t \in Columns(df) |->
        IF \E r \in df : r.ts = ts /\ r.Ticker = t
        THEN (CHOOSE r \in df : r.ts = ts /\ r.Ticker = t).Close
        ELSE NaN]]

Ffill(p) ==
    [ts \in DOMAIN p |-> [t \in DOMAIN p[ts] |->
        LET prev == {u \in DOMAIN p : u <= ts /\ p[u][t] # NaN}
        IN IF prev = {} THEN NaN ELSE p[SetMax(prev)][t]]]

Bfill(p) ==
    [ts \in DOMAIN p |-> [t \in DOMAIN p[ts] |->
        LET nxt == {u \in DOMAIN p : u >= ts /\ p[u][t] # NaN}
        IN IF nxt = {} THEN NaN ELSE p[SetMin(nxt)][t]]]

Iloc0(p) == p[SetMin(DOMAIN p)]

OpenVals(pivot) == Iloc0(Bfill(Ffill(pivot)))

\* the pivot forward-filled before the division: a missing ticker keeps its last price
RowMean_CarryForward(pivot, open_vals, ts) ==
    FMean({<<t, FSub(<<Ffill(pivot)[ts][t], open_vals[t]>>, <<1, 1>>)>> :
              t \in {u \in DOMAIN pivot[ts] : Ffill(pivot)[ts][u] # NaN}})

\* rel.mean(axis=1): NaN cells are skipped
RowMean(pivot, open_vals, ts) ==
    FMean({<<t, FSub(<<pivot[ts][t], open_vals[t]>>, <<1, 1>>)>> :
              t \in {u \in DOMAIN pivot[ts] : pivot[ts][u] # NaN}})

_make_equal_weight_intraday(df_day_) ==
    IF df_day_ = {} THEN df_day_
    ELSE LET pivot == Pivot(df_day_)
             open_vals == OpenVals(pivot)
         IN {[timestamp_utc |-> ts,
              pct_vs_open |-> FScale(RowMean(pivot, open_vals, ts), 100)] :
                 ts \in DOMAIN pivot}

\* intraday["pct_vs_open"].iloc[-1]
LastPct(intraday_) ==
    (CHOOSE r \in intraday_ :
        \A q \in intraday_ : q.timestamp_utc <= r.timestamp_utc).pct_vs_open

\* ------------------------------------------------- the stored levels table
\* A cell of the file: k = "ok" (a parsable value v), "bad" (text that does not
\* parse) or "nan" (an empty cell).  A date value is a day number, a level
\* value a fraction.
DateCells  == {[k |-> "ok", v |-> <<1, 1>>], [k |-> "ok", v |-> <<2, 1>>],
               [k |-> "bad", v |-> <<0, 1>>]}
LevelCells == {[k |-> "ok", v |-> <<24691, 200>>], [k |-> "ok", v |-> <<99, 1>>],
               [k |-> "bad", v |-> <<0, 1>>], [k |-> "nan", v |-> <<0, 1>>]}

Headers == {<<"date", "level">>, <<"Date", "Close">>, <<"date", "close">>,
            <<"datetime_jst", "index_level">>, <<"date", "value">>,
            <<"timestamp_utc", "level">>, <<"DATE", "LEVEL">>}

AbsentFile == [state |-> "absent", header |-> <<>>, rows |-> <<>>]

None == [kind |-> "none", val |-> <<0, 1>>]
Float(x) == [kind |-> "value", val |-> x]
Raised == [kind |-> "raise", val |-> <<0, 1>>]

\* pd.read_csv: EmptyDataError on an empty file, ParserError on an unparsable one
ReadCsvRaises(f) == f.state \in {"empty", "garbage"}

ColSet(f) == {f.header[i] : i \in 1..Len(f.header)}
ColPos(f, c) == CHOOSE i \in 1..Len(f.header) : f.header[i] = c
Column(f, c) == [i \in 1..Len(f.rows) |-> f.rows[i][ColPos(f, c)]]

LEVEL_COLS == <<"level", "Level", "close", "Close", "index_level">>

\* the body of the try block of _load_last_level
LastLevelBody(f) ==
    IF ReadCsvRaises(f) THEN Raised
    ELSE LET hits == {i \in 1..Len(LEVEL_COLS) : LEVEL_COLS[i] \in ColSet(f)}
         IN IF hits = {} THEN None
            ELSE LET col == Column(f, LEVEL_COLS[SetMin(hits)])
                     kept == {i \in DOMAIN col : col[i].k # "nan"}      \* dropna()
                 IN IF kept = {} THEN Raised                            \* iloc[-1]
                    ELSE IF col[SetMax(kept)].k = "bad" THEN Raised     \* float(val)
                    ELSE Float(col[SetMax(kept)].v)

\* try: ... except Exception: pass ; return None
LastLevelCatch(r) == IF r.kind = "raise" THEN None ELSE r

_load_last_level(f) ==
    IF f.state = "absent" THEN None ELSE LastLevelCatch(LastLevelBody(f))

\* --------------------------------------------------------------- the files
NoTable     == [state |-> "absent", run |-> 0, rows |-> {}]
NoStats     == [state |-> "absent", run |-> 0, pct_intraday |-> 0, updated_at |-> 0,
                last_level |-> None]
NoHeartbeat == [state |-> "absent", run |-> 0, ts |-> 0]

SnapshotLevelFiles ==
    {AbsentFile,
     [state |-> "table", header |-> <<"date", "level">>,
      rows |-> <<<<[k |-> "ok", v |-> <<1, 1>>], [k |-> "ok", v |-> <<24691, 200>>]>>>>],
     [state |-> "table", header |-> <<"Date", "Close">>,
      rows |-> <<<<[k |-> "ok", v |-> <<1, 1>>], [k |-> "bad", v |-> <<0, 1>>]>>>>]}

VARIABLES
    pc, run, clock,                 \* position of main(), run number, wall clock
    df_all, df_day, intraday,       \* locals of main()
    updated_at,                     \* local of main()
    outcome, exit_code, failed_at,  \* how the last run ended
    intraday_csv, stats_json, last_run_txt, levels_csv,   \* files
    prior,                          \* the files as the current run found them
    written,                        \* artifacts the current run has written, in order
    post_pc, panels, post_intraday, last_pct,   \* make_intraday_post.py: main()
    post_outcome, post_failed_at, out_png,
    lv_done, lv_res, ll             \* the readers of the levels table, and their results

postVars  == <<post_pc, panels, post_intraday, last_pct, post_outcome, post_failed_at,
               out_png>>
levelVars == <<lv_done, lv_res, ll>>
snapVars  == <<pc, run, clock, df_all, df_day, intraday, updated_at, outcome, exit_code,
               failed_at, intraday_csv, stats_json, last_run_txt, prior, written>>

vars == <<pc, run, clock, df_all, df_day, intraday, updated_at, outcome, exit_code,
          failed_at, intraday_csv, stats_json, last_run_txt, levels_csv, prior, written,
          post_pc, panels, post_intraday, last_pct, post_outcome, post_failed_at,
          out_png, lv_done, lv_res, ll>>

files  == <<intraday_csv, stats_json, last_run_txt>>
locals == <<df_all, df_day, intraday, updated_at>>

Artifacts == [table |-> intraday_csv, stats |-> stats_json, heartbeat |-> last_run_txt]

NoRead == [kind |-> "none", rows |-> <<>>, cause |-> "none", recomputed |-> FALSE,
           input |-> AbsentFile]
NoLast == [input |-> AbsentFile, out |-> None]

\* the other scripts have not been started
PostIdle ==
    /\ post_pc = "idle" /\ panels = {} /\ post_intraday = <<>> /\ last_pct = <<0, 1>>
    /\ post_outcome = "none" /\ post_failed_at = "none" /\ out_png = "absent"

LevelsIdle == lv_done = {} /\ lv_res = NoRead /\ ll = NoLast

Init ==
    /\ PostIdle /\ LevelsIdle
    /\ pc = "idle" /\ run = 0 /\ clock = 0
    /\ df_all = {} /\ df_day = {} /\ intraday = {} /\ updated_at = 0
    /\ outcome = "none" /\ exit_code = 0 /\ failed_at = "none"
    /\ intraday_csv = NoTable /\ stats_json = NoStats /\ last_run_txt = NoHeartbeat
    /\ levels_csv \in SnapshotLevelFiles
    /\ prior = [table |-> NoTable, stats |-> NoStats, heartbeat |-> NoHeartbeat]
    /\ written = <<>>

\* datetime.now(JST) moves on between any two steps
Tick ==
    /\ UNCHANGED <<postVars, levelVars>>
    /\ clock < MaxClock
    /\ clock' = clock + 1
    /\ UNCHANGED <<pc, run, df_all, df_day, intraday, updated_at, outcome, exit_code,
                   failed_at, intraday_csv, stats_json, last_run_txt, levels_csv,
                   prior, written>>

\* main() is started: _ensure_dir(OUTPUT_DIR)
StartRun ==
    /\ UNCHANGED <<postVars, levelVars>>
    /\ pc = "idle" /\ run < MaxRuns
    /\ pc' = "FETCH" /\ run' = run + 1
    /\ df_all' = {} /\ df_day' = {} /\ intraday' = {} /\ updated_at' = 0
    /\ outcome' = "running" /\ failed_at' = "none"
    /\ prior' = Artifacts /\ written' = <<>>
    /\ UNCHANGED <<clock, exit_code, intraday_csv, stats_json, last_run_txt, levels_csv>>

\* the skip path also stamps last_run.txt
NoopExit_Heartbeat ==
    /\ pc' = "idle" /\ outcome' = "noop" /\ exit_code' = 0
    /\ last_run_txt' = [state |-> "ok", run |-> run, ts |-> clock]
    /\ UNCHANGED <<failed_at, intraday_csv, stats_json, written>>

\* print(...); sys.exit(0)
NoopExit ==
    /\ pc' = "idle" /\ outcome' = "noop" /\ exit_code' = 0
    /\ UNCHANGED <<failed_at, intraday_csv, stats_json, last_run_txt, written>>

\* an exception leaves main(): traceback, exit status 1
Abort(stage) ==
    /\ pc' = "idle" /\ outcome' = "failed" /\ exit_code' = 1 /\ failed_at' = stage

\* 1) df_all = _download_1m_last_days(TICKERS, days=5); yf.download is called
\*    with no handler around it
Fetch ==
    /\ UNCHANGED <<postVars, levelVars>>
    /\ pc = "FETCH"
    /\ \/ \E resp \in SnapshotResponses :
            /\ df_all' = _download_1m_last_days(resp)
            /\ IF df_all' = {} THEN NoopExit
               ELSE /\ pc' = "SELECT_SESSION"
                    /\ UNCHANGED <<outcome, exit_code, failed_at, intraday_csv,
                                   stats_json, last_run_txt, written>>
       \/ /\ Abort("FETCH")
          /\ UNCHANGED <<df_all, intraday_csv, stats_json, last_run_txt, written>>
    /\ UNCHANGED <<run, clock, df_day, intraday, updated_at, levels_csv, prior>>

\* 2) df_day = _select_latest_trading_date(df_all)
SelectSession ==
    /\ UNCHANGED <<postVars, levelVars>>
    /\ pc = "SELECT_SESSION"
    /\ df_day' = _select_latest_trading_date(df_all)
    /\ IF df_day' = {} THEN NoopExit
       ELSE /\ pc' = "COMPUTE"
            /\ UNCHANGED <<outcome, exit_code, failed_at, intraday_csv, stats_json,
                           last_run_txt, written>>
    /\ UNCHANGED <<run, clock, df_all, intraday, updated_at, levels_csv, prior>>

\* 3) intraday = _make_equal_weight_intraday(df_day)
Compute ==
    /\ UNCHANGED <<postVars, levelVars>>
    /\ pc = "COMPUTE"
    /\ intraday' = _make_equal_weight_intraday(df_day)
    /\ IF intraday' = {} THEN NoopExit
       ELSE /\ pc' = "WRITE_CSV"
            /\ UNCHANGED <<outcome, exit_code, failed_at, intraday_csv, stats_json,
                           last_run_txt, written>>
    /\ UNCHANGED <<run, clock, df_all, df_day, updated_at, levels_csv, prior>>

\* A write that fails leaves the file as it was (it could not be opened) or
\* truncated (it was opened with mode "w" and the data did not reach it).
\* 4) intraday.to_csv(INTRADAY_CSV, index=True)
WriteCsv ==
    /\ UNCHANGED <<postVars, levelVars>>
    /\ pc = "WRITE_CSV"
    /\ \/ /\ intraday_csv' = [state |-> "ok", run |-> run, rows |-> intraday]
          /\ written' = Append(written, "table")
          /\ pc' = "WRITE_STATS"
          /\ UNCHANGED <<outcome, exit_code, failed_at>>
       \/ /\ Abort("PERSIST")
          /\ \/ UNCHANGED intraday_csv
             \/ intraday_csv' = [state |-> "partial", run |-> run, rows |-> {}]
          /\ UNCHANGED written
    /\ UNCHANGED <<run, clock, df_all, df_day, intraday, updated_at, stats_json,
                   last_run_txt, levels_csv, prior>>

\* 5) pct_intraday, updated_at, last_level; json.dump(stats, f)
Stats(now) ==
    [state |-> "ok", run |-> run,
     pct_intraday |-> Round2(LastPct(intraday)),
     updated_at |-> now,
     last_level |-> LET l == _load_last_level(levels_csv)
                    IN IF l.kind = "none" THEN None ELSE Float(<<Round2(l.val), 100>>)]

WriteStats ==
    /\ UNCHANGED <<postVars, levelVars>>
    /\ pc = "WRITE_STATS"
    /\ updated_at' = clock
    /\ \/ /\ stats_json' = Stats(clock)
          /\ written' = Append(written, "stats")
          /\ pc' = "WRITE_HEARTBEAT"
          /\ UNCHANGED <<outcome, exit_code, failed_at>>
       \/ /\ Abort("PERSIST")
          /\ \/ UNCHANGED stats_json
             \/ stats_json' = [NoStats EXCEPT !.state = "partial", !.run = run]
          /\ UNCHANGED written
    /\ UNCHANGED <<run, clock, df_all, df_day, intraday, intraday_csv, last_run_txt,
                   levels_csv, prior>>

\* the heartbeat stamped with a fresh _now_jst_str()
Heartbeat_Now(ts) == [state |-> "ok", run |-> run, ts |-> clock]

\* 6) last_run.txt: "intraday snapshot OK @ {updated_at}"
Heartbeat(ts) == [state |-> "ok", run |-> run, ts |-> ts]

WriteHeartbeat ==
    /\ UNCHANGED <<postVars, levelVars>>
    /\ pc = "WRITE_HEARTBEAT"
    /\ \/ /\ last_run_txt' = Heartbeat(updated_at)
          /\ written' = Append(written, "heartbeat")
          /\ pc' = "idle" /\ outcome' = "ok" /\ exit_code' = 0
          /\ UNCHANGED failed_at
       \/ /\ Abort("PERSIST")
          /\ \/ UNCHANGED last_run_txt
             \/ last_run_txt' = [state |-> "partial", run |-> run, ts |-> 0]
          /\ UNCHANGED written
    /\ UNCHANGED <<run, clock, df_all, df_day, intraday, updated_at, intraday_csv,
                   stats_json, levels_csv, prior>>

Next ==
    \/ Tick
    \/ StartRun
    \/ Fetch
    \/ SelectSession
    \/ Compute
    \/ WriteCsv
    \/ WriteStats
    \/ WriteHeartbeat

Spec == Init /\ [][Next]_vars

\* ---------------------------------------- session selection and composition
\* SELECT_SESSION and COMPUTE applied to every provider response of PureResponses
InitPure ==
    /\ PostIdle /\ LevelsIdle
    /\ pc = "SELECT_SESSION" /\ run = 1 /\ clock = 0
    /\ \E resp \in PureResponses : df_all = _download_1m_last_days(resp)
    /\ df_day = {} /\ intraday = {} /\ updated_at = 0
    /\ outcome = "running" /\ exit_code = 0 /\ failed_at = "none"
    /\ intraday_csv = NoTable /\ stats_json = NoStats /\ last_run_txt = NoHeartbeat
    /\ levels_csv = AbsentFile
    /\ prior = [table |-> NoTable, stats |-> NoStats, heartbeat |-> NoHeartbeat]
    /\ written = <<>>

NextPure ==
    \/ SelectSession
    \/ Compute

SpecPure == InitPure /\ [][NextPure]_vars

Selected == pc \in {"COMPUTE", "WRITE_CSV"} \/ (pc = "idle" /\ outcome = "noop")
Composed == pc = "WRITE_CSV"

\* observations of the feed that fall on calendar date d (reference timezone)
OnDate(d) == {r \in df_all : DateET(r.ts) = d}
Qualifying == {d \in {DateET(r.ts) : r \in df_all} :
                  Cardinality(OnDate(d)) >= MIN_SAMPLES_TODAY}

\* C1: session selection returns the observations of exactly one date whose
\* combined observation count is >= the minimum, that date is the latest of the
\* dates meeting the minimum, and the result is empty exactly when no date does.
C1_SelectLatestQualifying ==
    Selected =>
        /\ (df_day = {}) <=> (Qualifying = {})
        /\ df_day # {} =>
             \E d \in Qualifying :
                /\ \A e \in Qualifying : e <= d
                /\ df_day = OnDate(d)
                /\ Cardinality(df_day) >= MIN_SAMPLES_TODAY

\* C1 witness: an older date qualifies, the newest date has observations but too
\* few, and the older one was selected.
C1_Witness ==
    /\ Selected
    /\ df_day # {}
    /\ \E r \in df_all : \A q \in df_day : DateET(q.ts) < DateET(r.ts)

\* tickers with an observation at timestamp ts of the selected session
Reporting(ts) == {r.Ticker : r \in {q \in df_day : q.ts = ts}}
PriceAt(t, ts) == (CHOOSE r \in df_day : r.Ticker = t /\ r.ts = ts).Close
FirstObs(t) ==
    (CHOOSE r \in df_day :
        /\ r.Ticker = t
        /\ \A q \in df_day : q.Ticker = t => r.ts <= q.ts).Close
MeanRatio(ts) ==
    FDivInt(FSum({<<t, Frac(PriceAt(t, ts), FirstObs(t))>> : t \in Reporting(ts)}),
            Cardinality(Reporting(ts)))

\* C5: at every timestamp of the selected session the composite is the mean,
\* over exactly the tickers observed at that timestamp, of price / the ticker's
\* own first observation of the session (pct_vs_open = (mean - 1) * 100).
C5_MeanOfAvailableRatios ==
    Composed =>
        /\ {r.timestamp_utc : r \in intraday} = {q.ts : q \in df_day}
        /\ \A r \in intraday :
             r.pct_vs_open = FScale(FSub(MeanRatio(r.timestamp_utc), <<1, 1>>), 100)

\* C5 witness: a timestamp at which exactly 4 of the 5 tickers report, the
\* fifth reporting elsewhere in the session, with a composite that moved.
C5_Witness ==
    /\ Composed
    /\ \E r \in intraday :
          /\ Cardinality(Reporting(r.timestamp_utc)) = 4
          /\ Cardinality({q.Ticker : q \in df_day}) = 5
          /\ r.pct_vs_open # <<0, 1>>

\* C6: no point of the composite series is computed from fewer than 2 tickers.
C6_AtLeastTwoContributors ==
    Composed => \A r \in intraday : Cardinality(Reporting(r.timestamp_utc)) >= 2

\* ------------------------------------------------- make_intraday_post.py
PostResponses ==
    {Response(n1, n2, pats) : n1 \in {0, 1}, n2 \in 0..MaxPostMinutes,
                              pats \in [TickerSet -> Patterns]}

\* minute of the day in US/Eastern
MinuteOfDayET(ts) == (ts - 300) % 1440

\* _load_1min_last_session: the rows of the day of the last record, 09:30-16:00
_load_1min_last_session(obs) ==
    LET last_est_day == DateET(SetMax({o.ts : o \in obs}))
    IN {o \in obs : /\ DateET(o.ts) = last_est_day
                    /\ MinuteOfDayET(o.ts) >= 570 /\ MinuteOfDayET(o.ts) <= 960}

\* the loop of main(): a ticker whose download is empty raises RuntimeError,
\* which main() catches and reports as a warning
LoadPanels(resp) ==
    {[Ticker |-> t, obs |-> _load_1min_last_session(resp[t])] : t \in {u \in TickerSet : resp[u] # {}}}

RECURSIVE SortedSeq(_)
SortedSeq(S) == IF S = {} THEN <<>> ELSE <<SetMin(S)>> \o SortedSeq(S \ {SetMin(S)})

\* pd.concat(panels, axis=1, join="inner").sort_index(): the common timestamps
Joined(panels_) ==
    SortedSeq({ts \in UNION {{o.ts : o \in q.obs} : q \in panels_} :
                  \A q \in panels_ : \E o \in q.obs : o.ts = ts})

ValueAt(q, ts) == (CHOOSE o \in q.obs : o.ts = ts).Close

\* opens = df.iloc[0]; rel = df / opens; eqw = rel.mean(axis=1); pct = (eqw - 1) * 100
ComposePct(panels_) ==
    LET idx == Joined(panels_)
    IN [i \in 1..Len(idx) |->
          [ts |-> idx[i],
           pct |-> FScale(FSub(FMean({<<q.Ticker, Frac(ValueAt(q, idx[i]), ValueAt(q, idx[1]))>> :
                                         q \in panels_}), <<1, 1>>), 100)]]

\* pct.rolling(window=3, min_periods=1, center=True).mean()
Rolling3Centered(pct) ==
    [i \in 1..Len(pct) |->
        [ts |-> pct[i].ts,
         pct |-> FMean({<<j, pct[j].pct>> : j \in {i - 1, i, i + 1} \cap (1..Len(pct))})]]

_compose_equal_weight(panels_) == Rolling3Centered(ComposePct(panels_))

PostAbort(stage) ==
    /\ post_pc' = "done" /\ post_outcome' = "failed" /\ post_failed_at' = stage

\* 1) the panels of the tickers; fewer than 2 raise RuntimeError
PostFetch ==
    /\ post_pc = "idle"
    /\ \E resp \in PostResponses :
          /\ panels' = LoadPanels(resp)
          /\ IF Cardinality(panels') < 2
             THEN PostAbort("FETCH")
             ELSE post_pc' = "COMPUTE" /\ UNCHANGED <<post_outcome, post_failed_at>>
    /\ UNCHANGED <<post_intraday, last_pct, out_png>>
    /\ UNCHANGED <<snapVars, levels_csv, levelVars>>

\* 2) intraday = _compose_equal_weight(panels); last_pct = intraday["pct"].iloc[-1]
\*    df.iloc[0] raises IndexError when the panels share no timestamp
PostCompose ==
    /\ post_pc = "COMPUTE"
    /\ IF Joined(panels) = <<>>
       THEN PostAbort("COMPUTE") /\ UNCHANGED <<post_intraday, last_pct>>
       ELSE /\ post_intraday' = _compose_equal_weight(panels)
            /\ last_pct' = post_intraday'[Len(post_intraday')].pct
            /\ post_pc' = "PERSIST"
            /\ UNCHANGED <<post_outcome, post_failed_at>>
    /\ UNCHANGED <<panels, out_png>>
    /\ UNCHANGED <<snapVars, levels_csv, levelVars>>

\* 3) fig.savefig(OUT_PNG)
PostSave ==
    /\ post_pc = "PERSIST"
    /\ \/ /\ out_png' = "written"
          /\ post_pc' = "done" /\ post_outcome' = "ok"
          /\ UNCHANGED post_failed_at
       \/ /\ PostAbort("PERSIST")
          /\ UNCHANGED out_png
    /\ UNCHANGED <<panels, post_intraday, last_pct>>
    /\ UNCHANGED <<snapVars, levels_csv, levelVars>>

InitPost ==
    /\ PostIdle /\ LevelsIdle
    /\ pc = "idle" /\ run = 0 /\ clock = 0
    /\ df_all = {} /\ df_day = {} /\ intraday = {} /\ updated_at = 0
    /\ outcome = "none" /\ exit_code = 0 /\ failed_at = "none"
    /\ intraday_csv = NoTable /\ stats_json = NoStats /\ last_run_txt = NoHeartbeat
    /\ levels_csv = AbsentFile
    /\ prior = [table |-> NoTable, stats |-> NoStats, heartbeat |-> NoHeartbeat]
    /\ written = <<>>

NextPost ==
    \/ PostFetch
    \/ PostCompose
    \/ PostSave

SpecPost == InitPost /\ [][NextPost]_vars

\* C3: PERSIST is the only stage that can end a run as a hard failure: a run
\* that ends in failure failed while writing an output artifact, never because
\* upstream data was unavailable.
C3_OnlyPersistFails ==
    /\ outcome = "failed" => failed_at = "PERSIST"
    /\ post_outcome = "failed" => post_failed_at = "PERSIST"

\* C7: the reported last percentage is the unsmoothed composite value at the
\* latest timestamp.
C7_LastIsUnsmoothed ==
    /\ post_pc \in {"PERSIST", "done"} /\ post_failed_at \notin {"FETCH", "COMPUTE"} =>
          last_pct = ComposePct(panels)[Len(ComposePct(panels))].pct
    /\ stats_json.state = "ok" /\ intraday_csv.run = stats_json.run =>
          stats_json.pct_intraday = Round2(LastPct(intraday_csv.rows))

\* ---------------------------------------------------------- long_charts.py
BASE_DATE == 1

RECURSIVE SeqsUpTo(_, _)
SeqsUpTo(S, n) ==
    IF n = 0 THEN {<<>>}
    ELSE LET shorter == SeqsUpTo(S, n - 1)
         IN shorter \cup {Append(q, x) : q \in {r \in shorter : Len(r) = n - 1}, x \in S}

FileRows == {<<d, l>> : d \in DateCells, l \in LevelCells}

LevelFiles ==
    {AbsentFile,
     [state |-> "empty", header |-> <<>>, rows |-> <<>>],
     [state |-> "garbage", header |-> <<>>, rows |-> <<>>]}
    \cup {[state |-> "table", header |-> h, rows |-> rs] :
             h \in Headers, rs \in SeqsUpTo(FileRows, MaxRows)}

Series(rs) == [kind |-> "series", rows |-> rs, cause |-> "none", recomputed |-> FALSE]
Recompute  == [kind |-> "recompute", rows |-> <<>>, cause |-> "none", recomputed |-> FALSE]
FileError  == [kind |-> "raise", rows |-> <<>>, cause |-> "file", recomputed |-> FALSE]

\* the try block of load_levels
LevelsReadBody(f) ==
    IF ReadCsvRaises(f) THEN FileError
    ELSE IF {"date", "level"} \subseteq ColSet(f) /\ Len(f.rows) > 0
    THEN IF \E i \in 1..Len(f.rows) : Column(f, "date")[i].k = "bad"
         THEN FileError                                         \* pd.to_datetime
         ELSE Series([i \in 1..Len(f.rows) |->
                         <<Column(f, "date")[i], Column(f, "level")[i]>>])
    ELSE Recompute

\* no handler around the read
LevelsCatch_None(r) == r

\* except Exception: pass, and on to _recalc_and_save()
LevelsCatch(r) == IF r.kind = "raise" THEN Recompute ELSE r

LoadLevelsRead(f) ==
    IF f.state = "absent" THEN Recompute ELSE LevelsCatch(LevelsReadBody(f))

\* the daily closes the provider returns from day `first` on, three days of them
DailyDays(first) == first..(first + 2)
DailyClose(t, d) == Tape(t, d, 0)

\* base_row = df.loc[:BASE_DATE].iloc[-1]; level = df.divide(base_row).mean(axis=1) * 100
_recalc_and_save(first) ==
    LET base == SetMax({d \in DailyDays(first) : d <= BASE_DATE})
    IN [i \in 1..3 |->
          <<[k |-> "ok", v |-> <<first + i - 1, 1>>],
            [k |-> "ok",
             v |-> FScale(FMean({<<t, Frac(DailyClose(t, first + i - 1), DailyClose(t, base))>> :
                                    t \in TickerSet}), 100)]>>]

\* load_levels() of long_charts.py; _recalc_and_save() raises when the provider
\* does, when no row lies at or before BASE_DATE, and when the table cannot be written
load_levels ==
    /\ "long" \notin lv_done
    /\ lv_done' = lv_done \cup {"long"}
    /\ LET r == LoadLevelsRead(levels_csv)
       IN IF r.kind # "recompute"
          THEN lv_res' = [kind |-> r.kind, rows |-> r.rows, cause |-> r.cause,
                          recomputed |-> FALSE, input |-> levels_csv]
               /\ UNCHANGED levels_csv
          ELSE \/ \E first \in {0, BASE_DATE + 1} :
                     IF \E d \in DailyDays(first) : d <= BASE_DATE
                     THEN /\ lv_res' = [kind |-> "series", rows |-> _recalc_and_save(first),
                                        cause |-> "none", recomputed |-> TRUE,
                                        input |-> levels_csv]
                          /\ levels_csv' = [state |-> "table", header |-> <<"date", "level">>,
                                            rows |-> _recalc_and_save(first)]
                     ELSE /\ lv_res' = [kind |-> "raise", rows |-> <<>>, cause |-> "source",
                                        recomputed |-> TRUE, input |-> levels_csv]
                          /\ UNCHANGED levels_csv
               \/ /\ \E c \in {"source", "persist"} :
                        lv_res' = [kind |-> "raise", rows |-> <<>>, cause |-> c,
                                   recomputed |-> TRUE, input |-> levels_csv]
                  /\ UNCHANGED levels_csv
    /\ UNCHANGED ll
    /\ UNCHANGED <<snapVars, postVars>>

\* _load_last_level() of qbit5_snapshot.py
ReadLastLevel ==
    /\ "snap" \notin lv_done
    /\ lv_done' = lv_done \cup {"snap"}
    /\ ll' = [input |-> levels_csv, out |-> _load_last_level(levels_csv)]
    /\ UNCHANGED <<lv_res, levels_csv>>
    /\ UNCHANGED <<snapVars, postVars>>

InitLevels ==
    /\ PostIdle /\ LevelsIdle
    /\ pc = "idle" /\ run = 0 /\ clock = 0
    /\ df_all = {} /\ df_day = {} /\ intraday = {} /\ updated_at = 0
    /\ outcome = "none" /\ exit_code = 0 /\ failed_at = "none"
    /\ intraday_csv = NoTable /\ stats_json = NoStats /\ last_run_txt = NoHeartbeat
    /\ levels_csv \in LevelFiles
    /\ prior = [table |-> NoTable, stats |-> NoStats, heartbeat |-> NoHeartbeat]
    /\ written = <<>>

NextLevels ==
    \/ load_levels
    \/ ReadLastLevel

SpecLevels == InitLevels /\ [][NextLevels]_vars

\* the stored file has drifted: it is absent, empty, unparsable, or lacks the
\* column(s) the reader recognises
DriftedForLoadLevels(f) ==
    \/ f.state \in {"absent", "empty", "garbage"}
    \/ ~({"date", "level"} \subseteq ColSet(f))
DriftedForLastLevel(f) ==
    \/ f.state \in {"absent", "empty", "garbage"}
    \/ \A i \in 1..Len(LEVEL_COLS) : LEVEL_COLS[i] \notin ColSet(f)

\* C8: reading a stored levels table never raises on account of the file: for
\* a drifted (or otherwise unreadable) file load_levels recomputes from the
\* price source and _load_last_level returns no value.
C8_ReadNeverRaisesForFile ==
    /\ "long" \in lv_done =>
          /\ lv_res.cause # "file"
          /\ DriftedForLoadLevels(lv_res.input) => lv_res.recomputed
          /\ lv_res.kind = "raise" => lv_res.recomputed
    /\ "snap" \in lv_done =>
          /\ ll.out.kind # "raise"
          /\ DriftedForLastLevel(ll.input) => ll.out = None

\* C8 witness: both readers met a table whose date or level cells do not parse
\* (or a file without the columns) and neither raised: load_levels recomputed
\* and the stored table was replaced, _load_last_level returned no value.
C8_Witness ==
    /\ lv_done = {"long", "snap"}
    /\ lv_res.input.state = "table" /\ lv_res.recomputed /\ lv_res.kind = "series"
    /\ \E i \in 1..Len(lv_res.input.rows) : lv_res.input.rows[i][1].k = "bad"
    /\ ll.input.state = "table" /\ ll.out = None
    /\ \E i \in 1..Len(ll.input.rows) : ll.input.rows[i][2].k = "bad"

\* the logical (timestamp, level) series of the stored rows
StoredSeries(f) == [i \in 1..Len(f.rows) |-> <<f.rows[i][1], f.rows[i][2]>>]

\* C9: a table stored under the header ["Date","Close"] reads as the same
\* (timestamp, level) series, taken from the stored rows, as the same rows
\* under the header ["date","level"].
C9_LegacyHeaderSameSeries ==
    /\ "long" \in lv_done /\ lv_res.input.state = "table"
       /\ lv_res.input.header = <<"Date", "Close">>
       /\ LoadLevelsRead([lv_res.input EXCEPT !.header = <<"date", "level">>]).kind = "series"
       => /\ lv_res.kind = "series" /\ ~lv_res.recomputed
          /\ lv_res.rows = StoredSeries(lv_res.input)
    /\ "snap" \in lv_done /\ ll.input.state = "table"
       /\ ll.input.header = <<"Date", "Close">>
       => ll.out = _load_last_level([ll.input EXCEPT !.header = <<"date", "level">>])

\* ------------------------------------------------------- the snapshot runs
\* C2: a run that ends as a benign no-op exits with code 0 and leaves the
\* intraday table, the stats object and the heartbeat file as it found them.
C2_NoopLeavesArtifacts ==
    outcome = "noop" => exit_code = 0 /\ pc = "idle" /\ Artifacts = prior

\* C2 witness: a run ended as a no-op (too few samples on every date of a
\* non-empty feed) with all three artifacts persisted by an earlier run.
C2_Witness ==
    /\ outcome = "noop" /\ df_all # {}
    /\ intraday_csv.state = "ok" /\ stats_json.state = "ok" /\ last_run_txt.state = "ok"

\* C4: after a run has ended the persisted table and the stats object come
\* from the same run.
C4_TableAndStatsSameRun ==
    pc = "idle" => intraday_csv.run = stats_json.run

\* C10: the heartbeat is rewritten only by a run that has written the table and
\* then the stats object, it carries the updated_at of that run's stats, and a
\* no-op run or a run failing before the heartbeat write leaves it unchanged.
C10_HeartbeatAfterTableAndStats ==
    /\ last_run_txt # prior.heartbeat =>
          /\ Len(written) >= 2 /\ written[1] = "table" /\ written[2] = "stats"
          /\ intraday_csv.state = "ok" /\ intraday_csv.run = run
          /\ stats_json.state = "ok" /\ stats_json.run = run
          /\ last_run_txt.run = run
          /\ last_run_txt.state = "ok" =>
                /\ written = <<"table", "stats", "heartbeat">>
                /\ last_run_txt.ts = stats_json.updated_at
                /\ outcome = "ok"
    /\ outcome = "ok" => last_run_txt = [state |-> "ok", run |-> run, ts |-> stats_json.updated_at]
    /\ outcome = "noop" \/ (outcome = "failed" /\ Len(written) < 2) =>
          last_run_txt = prior.heartbeat

\* C10 witness: a second successful run replaced the heartbeat of the first
\* with a later timestamp, although the clock moved on after the stats write.
C10_Witness ==
    /\ outcome = "ok" /\ run = 2
    /\ prior.heartbeat.state = "ok"
    /\ last_run_txt.ts > prior.heartbeat.ts
    /\ clock > last_run_txt.ts
====
